---- MODULE Spec2Model ----
(***************************************************************************)
(* Workflow-to-SQL compilation pipeline of src/main3.py:                   *)
(*   generate -> parse_alteryx_xml -> generate_sql_from_tools              *)
(* One compilation request is modelled: the posted document is the input, *)
(* the translation capability (model.generate_content) is the only source *)
(* of nondeterminism after Init.                                           *)
(*                                                                         *)
(* Text is modelled as sequences of tokens.  A Python dict is modelled as  *)
(* a sequence of <<key, value>> pairs with pairwise distinct keys, in      *)
(* insertion order.  Python's None is the value None below.                *)
(***************************************************************************)
EXTENDS Integers, Sequences, FiniteSets, TLC

\* ------------------------------------------------------------------ bounds
\* Largest number of Node elements in a posted document.
MaxNodes == 3

\* ------------------------------------------------------- program constants
\* max_retries = 5
max_retries == 5

\* Python's None (an absent XML attribute or element).
None == "<None>"

\* Names bound at module level by the import statements (lines 1-6) and the
\* module's own assignments and definitions: time is not among them.
ModuleNames ==
    {"os", "json", "ET", "Flask", "request", "render_template_string",
     "aiplatform", "GenerativeModel", "app", "PROJECT_ID", "REGION",
     "MODEL_NAME", "parse_alteryx_xml", "generate_sql_from_tools",
     "HTML_TEMPLATE", "index", "generate"}

\* current_schema at the start of generate_sql_from_tools.
InitialSchema ==
    << <<"OrderID", "STRING">>, <<"CustomerName", "STRING">>,
       <<"ProductCategory", "STRING">>, <<"SalesAmount", "FLOAT">> >>

\* current_cte at the start of generate_sql_from_tools.
InitialCte == "initial_data"

\* The replacement target of the placeholder substitution (the source writes
\* it between backquotes, which a TLA+ string cannot hold).
SourceTable == "your_project.your_dataset.your_initial_table"

\* ------------------------------------------------------------ dict helpers
\* dict.keys(), in insertion order.
Keys(d) == [k \in 1..Len(d) |-> d[k][1]]

KeySet(d) == {d[k][1] : k \in 1..Len(d)}

\* d[key] for a key of d.
Lookup(d, key) == (CHOOSE k \in 1..Len(d) : d[k][1] = key)

Get(d, key) == d[Lookup(d, key)][2]

\* d[key] = value: an existing key keeps its position and takes the new
\* value, a new key is appended.
DictSet(d, key, value) ==
    IF key \in KeySet(d)
    THEN [d EXCEPT ![Lookup(d, key)] = <<key, value>>]
    ELSE Append(d, <<key, value>>)

\* Python truthiness of an attribute value: None and "" are false.
Truthy(v) == v # None /\ v # ""

\* ---------------------------------------------------------------- input
\* ToolID attribute values of the documents explored: "10" sorts before "2"
\* as text and after it as a number.
ToolIds == {"1", "2", "10"}

\* A ToolID that is not a number.
BadToolId == "x"

\* Whether int(s) returns: it raises ValueError for non-numeric text and
\* TypeError for None (a missing attribute).
IsNumeric(s) == s \in {"1", "2", "02", "3", "10"}

\* int(s) for the numeric ToolID values explored.
IntOf(s) ==
    CASE s = "1" -> 1
      [] s = "2" -> 2
      [] s = "02" -> 2
      [] s = "3" -> 3
      [] s = "10" -> 10

\* A Field element: its Name, Selected and Rename attributes (None: absent).
RawField(name, selected, rename) ==
    [Name |-> name, Selected |-> selected, Rename |-> rename]

\* The Fields element of the sample workflow of HTML_TEMPLATE.
ExampleFields ==
    << RawField("OrderID", "True", "transaction_id"),
       RawField("CustomerName", "True", None),
       RawField("ProductCategory", "False", None),
       RawField("SalesAmount", "True", "total_sales") >>

\* A second Select, meant to follow the sample one: it renames total_sales
\* to the name of another selected field.
FollowUpFields ==
    << RawField("total_sales", "True", "CustomerName"),
       RawField("CustomerName", "True", "") >>

\* A Select that lists one field five times, under five output names.
CopyFields ==
    << RawField("CustomerName", "True", None),
       RawField("CustomerName", "True", "copy1"),
       RawField("CustomerName", "True", "copy2"),
       RawField("CustomerName", "True", "copy3"),
       RawField("CustomerName", "True", "copy4") >>

\* The Expression of the sample workflow of HTML_TEMPLATE.
ExampleExpression == "[total_sales] > 1000 AND [CustomerName] = 'Alice'"

\* A Node element.  Fields is <<>> when the node has no Fields descendant and
\* <<fs>> when its first one holds the Field elements fs; Expression is None
\* when the node has no Expression descendant, else that element's text.
RawNode(id, type, fields, expression) ==
    [ToolID |-> id, Type |-> type, Fields |-> fields, Expression |-> expression]

\* Node elements of the documents explored.
Nodes ==
    {RawNode(id, "Select", <<ExampleFields>>, None) : id \in ToolIds}
    \cup {RawNode(id, "Select", <<FollowUpFields>>, None) : id \in ToolIds}
    \cup {RawNode(id, "Select", <<CopyFields>>, None) : id \in ToolIds}
    \cup {RawNode(id, "Filter", <<>>, ExampleExpression) : id \in ToolIds}
    \cup {RawNode(id, "Join", <<>>, None) : id \in ToolIds}
    \cup {RawNode(BadToolId, "Filter", <<>>, None),
          RawNode(None, "Join", <<>>, None)}

\* Sequences of at most n elements of S.
SeqUpTo(S, n) == UNION {[1..k -> S] : k \in 0..n}

\* The request's alteryx_xml_input: nothing posted (""), text that is not
\* well-formed XML, or a well-formed document, given by its Node elements in
\* document order.
Inputs ==
    {[text |-> "empty", nodes |-> <<>>], [text |-> "malformed", nodes |-> <<>>]}
    \cup {[text |-> "document", nodes |-> ns] : ns \in SeqUpTo(Nodes, MaxNodes)}

\* ------------------------------------------------------ parse_alteryx_xml
\* One entry of `fields` (lines 44-48).
ParseField(field) ==
    [name |-> field.Name,
     selected |-> (field.Selected = "True"),
     rename |-> field.Rename]

\* The `fields` list of a Select node (lines 40-48).
ParseFields(node) ==
    IF node.Fields = <<>>
    THEN <<>>
    ELSE [k \in 1..Len(node.Fields[1]) |-> ParseField(node.Fields[1][k])]

\* The tool appended for an accepted node (lines 49 and 54).  The model keeps
\* one record shape for both types: a Select has no expression, a Filter no
\* fields.  xml_snippet, the node's serialization, is the node itself.
ParseNode(node) ==
    IF node.Type = "Select"
    THEN [id |-> node.ToolID, type |-> "Select", fields |-> ParseFields(node),
          expression |-> None, xml_snippet |-> node]
    ELSE [id |-> node.ToolID, type |-> "Filter", fields |-> <<>>,
          expression |-> (IF node.Expression # None THEN node.Expression ELSE ""),
          xml_snippet |-> node]

\* Accepted taking every node that is not a Select for a Filter.
AcceptedWhateverType(node) == TRUE

\* Whether the loop of lines 35-54 appends a tool for the node.
Accepted(node) == node.Type = "Select" \/ node.Type = "Filter"

\* The `tools` list after the loop of lines 35-54.
RECURSIVE ExtractTools(_)
ExtractTools(nodes) ==
    IF nodes = <<>>
    THEN <<>>
    ELSE IF Accepted(Head(nodes))
         THEN <<ParseNode(Head(nodes))>> \o ExtractTools(Tail(nodes))
         ELSE ExtractTools(Tail(nodes))

\* SortKey with the ids compared as text, not as numbers: "10" sorts between
\* "1" and "2".
SortKeyAsText(tool) ==
    CASE tool.id = "1" -> 1
      [] tool.id = "10" -> 2
      [] tool.id = "2" -> 3
      [] OTHER -> 4

\* The sort key of line 57.
SortKey(tool) == IntOf(tool.id)

\* list.sort(key=...) is stable: an element goes after every element whose
\* key is not greater than its own.
RECURSIVE InsertSorted(_, _)
InsertSorted(sorted, tool) ==
    IF sorted = <<>>
    THEN <<tool>>
    ELSE IF SortKey(Head(sorted)) <= SortKey(tool)
         THEN <<Head(sorted)>> \o InsertSorted(Tail(sorted), tool)
         ELSE <<tool>> \o sorted

RECURSIVE SortTools(_)
SortTools(tools) ==
    IF tools = <<>>
    THEN <<>>
    ELSE InsertSorted(SortTools(SubSeq(tools, 1, Len(tools) - 1)),
                      tools[Len(tools)])

\* ParseAlteryxXml taking text that is not well-formed for a document without
\* nodes.
ParseAlteryxXmlLenient(in) ==
    LET extracted == ExtractTools(in.nodes) IN
    IF \E k \in 1..Len(extracted) : ~IsNumeric(extracted[k].id)
    THEN [tools |-> <<>>,
          error |-> "An unexpected error occurred during XML parsing"]
    ELSE [tools |-> SortTools(extracted), error |-> None]

\* parse_alteryx_xml's (tools, error): error is None on success.
ParseAlteryxXml(in) ==
    IF in.text # "document"
    THEN [tools |-> <<>>, error |-> "Error parsing XML"]
    ELSE LET extracted == ExtractTools(in.nodes) IN
         IF \E k \in 1..Len(extracted) : ~IsNumeric(extracted[k].id)
         THEN [tools |-> <<>>,
               error |-> "An unexpected error occurred during XML parsing"]
         ELSE [tools |-> SortTools(extracted), error |-> None]

\* ------------------------------------------------------------------ text
\* A run of three backquotes, the markdown fence (a TLA+ string cannot hold
\* a backquote).
Fence == "FENCE3"

Whitespace == {" ", "\n"}

\* str.strip(): leading and trailing whitespace removed.
RECURSIVE LStrip(_)
LStrip(text) ==
    IF text # <<>> /\ Head(text) \in Whitespace THEN LStrip(Tail(text)) ELSE text

RECURSIVE RStrip(_)
RStrip(text) ==
    IF text # <<>> /\ text[Len(text)] \in Whitespace
    THEN RStrip(SubSeq(text, 1, Len(text) - 1))
    ELSE text

Strip(text) == RStrip(LStrip(text))

\* str.replace(old, new): every non-overlapping occurrence of old, found
\* left to right, becomes new.
RECURSIVE Replace(_, _, _)
Replace(text, old, new) ==
    IF Len(text) < Len(old)
    THEN text
    ELSE IF SubSeq(text, 1, Len(old)) = old
         THEN new \o Replace(SubSeq(text, Len(old) + 1, Len(text)), old, new)
         ELSE <<Head(text)>> \o Replace(Tail(text), old, new)

\* sep.join(items)
RECURSIVE Join(_, _)
Join(items, sep) ==
    IF Len(items) <= 1
    THEN items
    ELSE <<Head(items), sep>> \o Join(Tail(items), sep)

\* ------------------------------------------------ generate_sql_from_tools
\* The key of line 88: rename when it is truthy, else name.
EffectiveName(field) ==
    IF Truthy(field.rename) THEN field.rename ELSE field.name

\* SelectSchema leaving out a selected field the schema does not hold,
\* instead of raising.
RECURSIVE SelectSchemaSkipsUnknown(_, _, _)
SelectSchemaSkipsUnknown(schema, fields, acc) ==
    IF fields = <<>>
    THEN [error |-> None, missing |-> None, schema |-> acc]
    ELSE LET field == Head(fields) IN
         IF ~field.selected \/ field.name \notin KeySet(schema)
         THEN SelectSchemaSkipsUnknown(schema, Tail(fields), acc)
         ELSE SelectSchemaSkipsUnknown(schema, Tail(fields),
                                       DictSet(acc, EffectiveName(field),
                                               Get(schema, field.name)))

\* The dict comprehension of lines 87-90, field by field: acc is the dict
\* built so far.  error is None, or "KeyError" with `missing` the key that
\* current_schema does not hold.
RECURSIVE SelectSchema(_, _, _)
SelectSchema(schema, fields, acc) ==
    IF fields = <<>>
    THEN [error |-> None, missing |-> None, schema |-> acc]
    ELSE LET field == Head(fields) IN
         IF ~field.selected
         THEN SelectSchema(schema, Tail(fields), acc)
         ELSE IF field.name \notin KeySet(schema)
              THEN [error |-> "KeyError", missing |-> field.name, schema |-> <<>>]
              ELSE SelectSchema(schema, Tail(fields),
                                DictSet(acc, EffectiveName(field),
                                        Get(schema, field.name)))

\* OutputSchema with a Filter starting from the source schema instead of a
\* copy of the current one.
OutputSchemaFilterResets(schema, tool) ==
    IF tool.type = "Select"
    THEN SelectSchema(schema, tool.fields, <<>>)
    ELSE [error |-> None, missing |-> None, schema |-> InitialSchema]

\* output_schema of lines 82-90 for one tool.
OutputSchema(schema, tool) ==
    IF tool.type = "Select"
    THEN SelectSchema(schema, tool.fields, <<>>)
    ELSE [error |-> None, missing |-> None, schema |-> schema]

\* NextCte numbering from enumerate's index itself.
NextCteFromZero(i) == "cte_" \o ToString(i)

\* next_cte of line 83, i being enumerate's index (from 0).
NextCte(i) == "cte_" \o ToString(i + 1)

\* The prompt of lines 92-115: what it embeds.
Prompt(tool, cte, schema) ==
    [kind |-> tool.type, input_cte |-> cte, input_schema |-> schema,
     xml |-> tool.xml_snippet]

\* The fragment the translation capability writes for a prompt: a SELECT
\* statement for a Select tool, a WHERE clause for a Filter tool, each
\* written from the node the prompt shows.
Content(p) ==
    IF p.kind = "Select"
    THEN <<"SELECT", "projection of tool " \o p.xml.ToolID>>
    ELSE <<"WHERE", "condition of tool " \o p.xml.ToolID>>

\* response.text of a call that returns: the fragment alone, or the fragment
\* in a sql fence with whitespace around it.
Responses(p) ==
    {Content(p),
     <<" ", Fence, "sql", "\n">> \o Content(p) \o <<"\n", Fence, "\n">>}

\* StripFences removing the bare fence before the sql fence, which leaves the
\* language tag behind.
StripFencesBareFirst(text) ==
    Replace(Replace(Strip(text), <<Fence>>, <<>>), <<Fence, "sql">>, <<>>)

\* generated_sql_snippet of line 132.
StripFences(text) ==
    Replace(Replace(Strip(text), <<Fence, "sql">>, <<>>), <<Fence>>, <<>>)

\* delay of line 126.
Delay(n) == 2 ^ n

\* Whether time.sleep of line 128 raises NameError.
SleepRaises == "time" \notin ModuleNames

\* CteBlock reading from the block's own name instead of the prior one.
CteBlockReadsItself(tool, next, cte, schema, snippet) ==
    IF tool.type = "Select"
    THEN <<"WITH", next, "AS", "(">> \o snippet \o <<"FROM", next, ")">>
    ELSE <<"WITH", next, "AS", "(", "SELECT">> \o Join(Keys(schema), ", ")
         \o <<"FROM", next>> \o snippet \o <<")">>

\* CteBlock listing the source table's columns in a Filter's block.
CteBlockFilterSourceColumns(tool, next, cte, schema, snippet) ==
    IF tool.type = "Select"
    THEN <<"WITH", next, "AS", "(">> \o snippet \o <<"FROM", cte, ")">>
    ELSE <<"WITH", next, "AS", "(", "SELECT">> \o Join(Keys(InitialSchema), ", ")
         \o <<"FROM", cte>> \o snippet \o <<")">>

\* The CTE block of lines 135-150.
CteBlock(tool, next, cte, schema, snippet) ==
    IF tool.type = "Select"
    THEN <<"WITH", next, "AS", "(">> \o snippet \o <<"FROM", cte, ")">>
    ELSE <<"WITH", next, "AS", "(", "SELECT">> \o Join(Keys(schema), ", ")
         \o <<"FROM", cte>> \o snippet \o <<")">>

\* FinalSelectCols listing the source columns instead of the final schema's.
FinalSelectColsOfSource(schema) == Join(Keys(InitialSchema), ", ")

\* final_select_cols of line 160.
FinalSelectCols(schema) == Join(Keys(schema), ", ")

\* The text line 163 searches for.
PlaceholderPattern(tools) == <<"FROM", tools[1].id>>

\* final_query of lines 159-172: the CTE blocks (joined by blank lines, after
\* the replacement of line 163), the terminal SELECT's columns and its FROM.
FinalQuery(steps, tools, schema, cte) ==
    [ctes |-> [k \in 1..Len(steps) |->
                  Replace(steps[k], PlaceholderPattern(tools),
                          <<"FROM", SourceTable>>)],
     columns |-> FinalSelectCols(schema),
     from |-> cte]

\* ----------------------------------------------------------------- state
VARIABLES
    input,           \* generate: alteryx_xml_input
    pc,              \* "Parsing", "Schema", "Translate", "Assembly", "Done", "Failed"
    tools,           \* the parsed, sorted tools
    i,               \* enumerate's index into tools (from 0)
    current_schema,
    current_cte,
    output_schema,
    next_cte,
    prompt,
    retries,
    sql_steps,
    sql_query,       \* generate: <<>> for None, else <<the query>>
    error,           \* generate: None, else the error message
    calls,           \* the prompts passed to model.generate_content, in order
    printed,         \* the delays announced by line 127, in order
    slept            \* the delays time.sleep has waited, in order

vars ==
    <<input, pc, tools, i, current_schema, current_cte, output_schema,
      next_cte, prompt, retries, sql_steps, sql_query, error, calls, printed,
      slept>>

NoPrompt == [kind |-> "", input_cte |-> "", input_schema |-> <<>>, xml |-> <<>>]

Init ==
    /\ input \in Inputs
    /\ pc = "Parsing"
    /\ tools = <<>>
    /\ i = 0
    /\ current_schema = <<>>
    /\ current_cte = ""
    /\ output_schema = <<>>
    /\ next_cte = ""
    /\ prompt = NoPrompt
    /\ retries = 0
    /\ sql_steps = <<>>
    /\ sql_query = <<>>
    /\ error = None
    /\ calls = <<>>
    /\ printed = <<>>
    /\ slept = <<>>

\* NoSteps never reporting the empty pipeline.
NoStepsIgnored(steps) == FALSE

\* `not sql_steps` of line 156.
NoSteps(steps) == steps = <<>>

\* Fail recording the error and going on to assemble what was generated.
FailAndAssemble(message) ==
    /\ pc' = "Assembly"
    /\ error' = message
    /\ sql_query' = <<>>

\* A return of (None, message) by generate_sql_from_tools or
\* parse_alteryx_xml, rendered by generate as error_message.
Fail(message) ==
    /\ pc' = "Failed"
    /\ error' = message
    /\ sql_query' = <<>>

\* generate, lines 265-273, and the start of generate_sql_from_tools, lines
\* 71-78.
Parse ==
    /\ pc = "Parsing"
    /\ IF input.text = "empty"
       THEN /\ Fail("Please provide valid Alteryx XML input.")
            /\ UNCHANGED <<tools, current_schema, current_cte>>
       ELSE LET parsed == ParseAlteryxXml(input) IN
            IF parsed.error # None
            THEN /\ Fail(parsed.error)
                 /\ UNCHANGED <<tools, current_schema, current_cte>>
            ELSE /\ tools' = parsed.tools
                 /\ current_schema' = InitialSchema
                 /\ current_cte' = InitialCte
                 /\ pc' = IF parsed.tools = <<>> THEN "Assembly" ELSE "Schema"
                 /\ UNCHANGED <<error, sql_query>>
    /\ UNCHANGED <<input, i, output_schema, next_cte, prompt, retries,
                   sql_steps, calls, printed, slept>>

\* SchemaStep with one retry counter for the whole run: it resumes from the
\* number of calls made for the earlier tools.
SchemaStepSharedCounter ==
    /\ pc = "Schema"
    /\ LET tool == tools[i + 1]
           out == OutputSchema(current_schema, tool)
       IN IF out.error # None
          THEN /\ Fail("An error occurred during SQL generation: '"
                       \o out.missing \o "'")
               /\ UNCHANGED <<output_schema, next_cte, prompt, retries>>
          ELSE /\ output_schema' = out.schema
               /\ next_cte' = NextCte(i)
               /\ prompt' = Prompt(tool, current_cte, current_schema)
               /\ retries' = Len(calls)
               /\ pc' = "Translate"
               /\ UNCHANGED <<error, sql_query>>
    /\ UNCHANGED <<input, tools, i, current_schema, current_cte, sql_steps,
                   calls, printed, slept>>

\* SchemaStep building the prompt from the tool's output schema and new CTE
\* name.
SchemaStepPromptFromOutput ==
    /\ pc = "Schema"
    /\ LET tool == tools[i + 1]
           out == OutputSchema(current_schema, tool)
       IN IF out.error # None
          THEN /\ Fail("An error occurred during SQL generation: '"
                       \o out.missing \o "'")
               /\ UNCHANGED <<output_schema, next_cte, prompt, retries>>
          ELSE /\ output_schema' = out.schema
               /\ next_cte' = NextCte(i)
               /\ prompt' = Prompt(tool, NextCte(i), out.schema)
               /\ retries' = 0
               /\ pc' = "Translate"
               /\ UNCHANGED <<error, sql_query>>
    /\ UNCHANGED <<input, tools, i, current_schema, current_cte, sql_steps,
                   calls, printed, slept>>

\* One iteration of the loop of line 80, up to the retry loop: lines 81-119.
SchemaStep ==
    /\ pc = "Schema"
    /\ LET tool == tools[i + 1]
           out == OutputSchema(current_schema, tool)
       IN IF out.error # None
          THEN /\ Fail("An error occurred during SQL generation: '"
                       \o out.missing \o "'")
               /\ UNCHANGED <<output_schema, next_cte, prompt, retries>>
          ELSE /\ output_schema' = out.schema
               /\ next_cte' = NextCte(i)
               /\ prompt' = Prompt(tool, current_cte, current_schema)
               /\ retries' = 0
               /\ pc' = "Translate"
               /\ UNCHANGED <<error, sql_query>>
    /\ UNCHANGED <<input, tools, i, current_schema, current_cte, sql_steps,
                   calls, printed, slept>>

\* TranslateOk without the break of line 123: the response is dropped and
\* the retry loop calls again.
TranslateOkNoBreak ==
    /\ pc = "Translate"
    /\ calls' = Append(calls, prompt)
    /\ UNCHANGED <<input, pc, tools, i, current_schema, current_cte,
                   output_schema, next_cte, prompt, retries, sql_steps,
                   sql_query, error, printed, slept>>

\* A call of line 122 that returns, and the rest of the iteration: lines
\* 122-123 and 132-153.
TranslateOk ==
    /\ pc = "Translate"
    /\ \E text \in Responses(prompt) :
         sql_steps' = Append(sql_steps,
                             CteBlock(tools[i + 1], next_cte, current_cte,
                                      output_schema, StripFences(text)))
    /\ calls' = Append(calls, prompt)
    /\ current_cte' = next_cte
    /\ current_schema' = output_schema
    /\ i' = i + 1
    /\ pc' = IF i + 1 < Len(tools) THEN "Schema" ELSE "Assembly"
    /\ UNCHANGED <<input, tools, output_schema, next_cte, prompt, retries,
                   sql_query, error, printed, slept>>

\* A call of line 122 that raises: lines 124-130.
TranslateFail ==
    /\ pc = "Translate"
    /\ calls' = Append(calls, prompt)
    /\ retries' = retries + 1
    /\ printed' = Append(printed, Delay(retries + 1))
    /\ IF SleepRaises
       THEN /\ Fail("An error occurred during SQL generation: name 'time' is not defined")
            /\ UNCHANGED slept
       ELSE /\ slept' = Append(slept, Delay(retries + 1))
            /\ IF retries + 1 < max_retries
               THEN UNCHANGED <<pc, error, sql_query>>
               ELSE Fail("Failed to get a response from the model after 5 retries.")
    /\ UNCHANGED <<input, tools, i, current_schema, current_cte, output_schema,
                   next_cte, prompt, sql_steps>>

\* Lines 155-173, and generate's lines 277-280.
Assemble ==
    /\ pc = "Assembly"
    /\ IF NoSteps(sql_steps)
       THEN Fail("No SQL steps were generated.")
       ELSE /\ sql_query' = <<FinalQuery(sql_steps, tools, current_schema,
                                         current_cte)>>
            /\ pc' = "Done"
            /\ UNCHANGED error
    /\ UNCHANGED <<input, tools, i, current_schema, current_cte, output_schema,
                   next_cte, prompt, retries, sql_steps, calls, printed, slept>>

Next == Parse \/ SchemaStep \/ TranslateOk \/ TranslateFail \/ Assemble

Spec == Init /\ [][Next]_vars

\* ================================================================= claims
\* The accepted nodes of the posted document, in document order.
AcceptedNodes == SelectSeq(input.nodes, Accepted)

\* How many elements of seq equal x.
Count(seq, x) == Cardinality({k \in 1..Len(seq) : seq[k] = x})

\* The ToolID of the node a CTE block's fragment was written from.
BlockToolId(block) ==
    CHOOSE id \in ToolIds :
        \E k \in 1..Len(block) :
            block[k] \in {"projection of tool " \o id, "condition of tool " \o id}

\* C1: the parsed tools are the accepted nodes of the document sorted by
\* numeric id ascending, and the translation calls and the CTE blocks follow
\* that ascending order, whatever the document order.
C1_AscendingIdOrder ==
    pc \notin {"Parsing", "Failed"} \/ (pc = "Failed" /\ tools # <<>>) =>
        /\ Len(tools) = Len(AcceptedNodes)
        /\ \A k \in 1..Len(tools) :
               Count([j \in 1..Len(tools) |-> tools[j].xml_snippet],
                     tools[k].xml_snippet)
               = Count(AcceptedNodes, tools[k].xml_snippet)
        /\ \A a, b \in 1..Len(tools) :
               a < b => IntOf(tools[a].id) <= IntOf(tools[b].id)
        /\ \A a, b \in 1..Len(calls) :
               a < b => IntOf(calls[a].xml.ToolID) <= IntOf(calls[b].xml.ToolID)
        /\ \A a, b \in 1..Len(sql_steps) :
               a < b => IntOf(BlockToolId(sql_steps[a]))
                        <= IntOf(BlockToolId(sql_steps[b]))
        /\ \A k \in 1..Len(sql_steps) : BlockToolId(sql_steps[k]) = tools[k].id

\* C1 witness: a document whose three accepted nodes come in the order
\* 10, 1, 2 has been compiled, with one call and one block per tool.
C1_Witness ==
    /\ pc = "Done"
    /\ [k \in 1..Len(input.nodes) |-> input.nodes[k].ToolID] = <<"10", "1", "2">>
    /\ [k \in 1..Len(tools) |-> tools[k].id] = <<"1", "2", "10">>
    /\ Len(calls) = 3
    /\ Len(sql_steps) = 3

\* The selected fields of a Select tool.
SelectedFields(tool) ==
    {tool.fields[k] : k \in {j \in 1..Len(tool.fields) : tool.fields[j].selected}}

\* The output name the claims give a field: its rename if it has one.
ClaimedName(field) ==
    IF field.rename \notin {None, ""} THEN field.rename ELSE field.name

\* The <<key, value>> pairs of a dict.
Pairs(d) == {d[k] : k \in 1..Len(d)}

\* C2: the schema after a Select whose selected fields all exist in the input
\* schema is exactly { (rename if present else name) -> inputSchema[name] :
\* field selected }.  (While the tool is being translated, current_schema is
\* its input schema and output_schema the schema after it.)
C2_SelectProjectionLaw ==
    pc = "Translate" /\ tools[i + 1].type = "Select" =>
        Pairs(output_schema)
        = {<<ClaimedName(f), Get(current_schema, f.name)>> :
              f \in SelectedFields(tools[i + 1])}

\* C3: no step taken while the current tool is a Filter changes the current
\* schema, and the schema the Filter hands on is the one it received.
C3_FilterKeepsSchema ==
    /\ [](pc = "Translate" /\ tools[i + 1].type = "Filter"
            => output_schema = current_schema)
    /\ [][i < Len(tools) /\ tools[i + 1].type = "Filter"
            => current_schema' = current_schema]_vars

\* C3 witness: a Filter that follows a Select has been processed, the schema
\* being the Select's and not the source's.
C3_Witness ==
    /\ i = 2
    /\ tools[1].type = "Select"
    /\ tools[2].type = "Filter"
    /\ Len(sql_steps) = 2
    /\ current_schema # InitialSchema
    /\ current_schema # <<>>

\* C4: when every attempt for a tool fails, the pipeline fails after exactly
\* max_retries attempts for it, with the translation-exhausted error, each
\* wait being longer than the one before.  (retries counts the failed
\* attempts of the current tool.)
C4_RetryBound ==
    pc = "Failed" /\ retries > 0 =>
        /\ retries = max_retries
        /\ error = "Failed to get a response from the model after 5 retries."
        /\ \A k \in 1..(Len(slept) - 1) : slept[k] < slept[k + 1]

\* The schema after the tools of a sequence, from a given schema (<<>> once a
\* tool's schema step fails).
RECURSIVE Propagate(_, _)
Propagate(schema, ts) ==
    IF ts = <<>>
    THEN schema
    ELSE LET out == OutputSchema(schema, Head(ts)) IN
         IF out.error # None THEN <<>> ELSE Propagate(out.schema, Tail(ts))

\* The column names of a comma-separated column list.
ColumnsOf(list) == SelectSeq(list, LAMBDA t : t # ", ")

\* C5: the column list of the terminal SELECT of a compiled query is the key
\* list of the schema propagated from the initial schema through all tools,
\* in that schema's order.
C5_TerminalColumns ==
    pc = "Done" =>
        /\ sql_query # <<>>
        /\ ColumnsOf(sql_query[1].columns) = Keys(Propagate(InitialSchema, tools))
        /\ Len(sql_query[1].columns)
           = (IF Len(Propagate(InitialSchema, tools)) = 0 THEN 0
              ELSE 2 * Len(Propagate(InitialSchema, tools)) - 1)

\* C5 witness: a query compiled from two Selects, the second of which
\* narrows the schema of the first to a single column.
C5_Witness ==
    /\ pc = "Done"
    /\ Len(tools) >= 2
    /\ sql_query[1].columns = <<"CustomerName">>

\* C6: an empty tool sequence ends in the empty-pipeline error, with no query
\* and no translation call.
C6_EmptyPipeline ==
    input.text = "document" /\ AcceptedNodes = <<>> =>
        /\ pc # "Done"
        /\ sql_query = <<>>
        /\ calls = <<>>
        /\ pc \in {"Parsing", "Assembly", "Failed"}
        /\ pc = "Failed" => error = "No SQL steps were generated."

\* C6 witness: a document whose nodes are all of another type has been
\* refused.
C6_Witness ==
    /\ input.text = "document"
    /\ Len(input.nodes) = 2
    /\ tools = <<>>
    /\ pc = "Failed"
    /\ error = "No SQL steps were generated."

\* The prompts a run may have sent once it is at its tool number i + 1: those
\* of the tools up to that one.
PromptTools == {tools[k].xml_snippet : k \in 1..(IF i + 1 < Len(tools) THEN i + 1 ELSE Len(tools))}

\* C7: a failure at a tool step ends the run there: no step follows it, no
\* call was made for a later tool, the result is an error without a query;
\* and every finished run has either a query and no error or an error and
\* no query.
C7_FailureAborts ==
    /\ pc = "Failed" =>
          /\ sql_query = <<>>
          /\ error # None
          /\ ~ENABLED Next
          /\ \A k \in 1..Len(calls) : calls[k].xml \in PromptTools
    /\ pc = "Done" => sql_query # <<>> /\ error = None
    /\ pc \notin {"Done", "Failed"} => sql_query = <<>> /\ error = None

\* C7 witness: the second of three tools failed after the first had produced
\* its CTE block; nothing is returned but the error.
C7_Witness ==
    /\ pc = "Failed"
    /\ Len(tools) = 3
    /\ i = 1
    /\ Len(sql_steps) = 1
    /\ sql_query = <<>>
    /\ error # None

\* The sample workflow of HTML_TEMPLATE: a Select, then a Filter.
ExampleDocument ==
    << RawNode("1", "Select", <<ExampleFields>>, None),
       RawNode("2", "Filter", <<>>, ExampleExpression) >>

\* Whether text holds sub as a run of consecutive tokens.
Contains(text, sub) ==
    \E a \in 1..(Len(text) - Len(sub) + 1) : SubSeq(text, a, a + Len(sub) - 1) = sub

Tokens(text) == {text[k] : k \in 1..Len(text)}

\* C8: the sample workflow, every translation call succeeding, compiles to
\* two CTEs and a terminal SELECT of transaction_id, CustomerName,
\* total_sales, the second CTE holding the WHERE clause the capability wrote
\* for the Filter, without its fence; the run fails only if a call failed.
C8_EndToEndExample ==
    input.text = "document" /\ input.nodes = ExampleDocument =>
        /\ pc = "Done" =>
              /\ Len(sql_query[1].ctes) = 2
              /\ sql_query[1].columns
                 = <<"transaction_id", ", ", "CustomerName", ", ", "total_sales">>
              /\ Len(calls) = 2
              /\ calls[2].kind = "Filter"
              /\ Head(Content(calls[2])) = "WHERE"
              /\ Contains(sql_query[1].ctes[2], Content(calls[2]))
              /\ Tokens(sql_query[1].ctes[2]) \cap {Fence, "sql"} = {}
              /\ Tokens(sql_query[1].ctes[1]) \cap {Fence, "sql"} = {}
        /\ pc = "Failed" => printed # <<>>

\* C8 witness: the sample workflow has been compiled, the Filter's fragment
\* having come back inside a fence (the line breaks within the fence stay).
C8_Witness ==
    /\ input.text = "document"
    /\ input.nodes = ExampleDocument
    /\ pc = "Done"
    /\ "\n" \in Tokens(sql_query[1].ctes[2])

\* C9: a Select with a selected field whose name the current schema does not
\* hold makes the run fail at that tool with the unknown-column error, with
\* no query and no translation call for the tool.
C9_UnknownColumn ==
    [][(/\ pc = "Schema"
        /\ tools[i + 1].type = "Select"
        /\ \E f \in SelectedFields(tools[i + 1]) : f.name \notin KeySet(current_schema))
       => /\ pc' = "Failed"
          /\ sql_query' = <<>>
          /\ calls' = calls
          /\ \E f \in SelectedFields(tools[i + 1]) :
                /\ f.name \notin KeySet(current_schema)
                /\ error' = "An error occurred during SQL generation: '"
                            \o f.name \o "'"]_vars

\* C9 witness: a later Select asked for OrderID, which the first Select had
\* renamed away, and the run failed there.
C9_Witness ==
    /\ pc = "Failed"
    /\ i >= 1
    /\ Len(sql_steps) = i
    /\ tools[1].type = "Select"
    /\ error = "An error occurred during SQL generation: 'OrderID'"
    /\ sql_query = <<>>

\* The names a CTE block reads from.
FromTargets(block) ==
    {block[k + 1] : k \in {j \in 1..(Len(block) - 1) : block[j] = "FROM"}}

\* C10: in a compiled query the first CTE reads from the true source table,
\* and no CTE reads from the placeholder.
C10_PlaceholderRewritten ==
    pc = "Done" =>
        /\ SourceTable \in FromTargets(sql_query[1].ctes[1])
        /\ \A k \in 1..Len(sql_query[1].ctes) :
               InitialCte \notin FromTargets(sql_query[1].ctes[k])

\* The name of the k-th CTE, written out.
CteNameAt(k) ==
    CASE k = 1 -> "cte_1"
      [] k = 2 -> "cte_2"
      [] k = 3 -> "cte_3"
      [] k = 4 -> "cte_4"
      [] k = 5 -> "cte_5"

\* The name a CTE block defines.
BlockName(block) == block[2]

\* C11: the CTE block of the k-th tool of the sorted sequence is named cte_k,
\* whatever the tool's id; so are the blocks of the compiled query.
C11_PositionalCteNames ==
    /\ \A k \in 1..Len(sql_steps) : BlockName(sql_steps[k]) = CteNameAt(k)
    /\ pc = "Translate" => next_cte = CteNameAt(i + 1)
    /\ pc = "Done" =>
          \A k \in 1..Len(sql_query[1].ctes) :
              BlockName(sql_query[1].ctes[k]) = CteNameAt(k)

\* C11 witness: tools with the ids 2 and 10 (none with the id 1) have been
\* compiled into the blocks cte_1 and cte_2.
C11_Witness ==
    /\ pc = "Done"
    /\ [k \in 1..Len(tools) |-> tools[k].id] = <<"2", "10">>
    /\ [k \in 1..Len(sql_query[1].ctes) |-> BlockName(sql_query[1].ctes[k])]
       = <<"cte_1", "cte_2">>

\* C12: a compiled query for n tools has n CTE blocks, the k-th written for
\* the k-th tool; the first reads from the source placeholder, every other
\* one from the block before it and from nothing else; the terminal SELECT
\* reads from the last block.
C12_CteReferentialIntegrity ==
    pc = "Done" =>
        LET q == sql_query[1] IN
        /\ Len(q.ctes) = Len(tools)
        /\ \A k \in 1..Len(q.ctes) :
              /\ BlockToolId(q.ctes[k]) = tools[k].id
              /\ Head(q.ctes[k]) = "WITH"
              /\ FromTargets(q.ctes[k])
                 = {IF k = 1 THEN InitialCte ELSE BlockName(q.ctes[k - 1])}
              /\ \A j \in 1..Len(q.ctes) :
                    j # k => BlockName(q.ctes[j]) # BlockName(q.ctes[k])
        /\ q.from = BlockName(q.ctes[Len(q.ctes)])

\* C12 witness: a query of three blocks has been compiled, the third reading
\* from the second and the terminal SELECT from the third.
C12_Witness ==
    /\ pc = "Done"
    /\ Len(sql_query[1].ctes) = 3
    /\ FromTargets(sql_query[1].ctes[3]) = {"cte_2"}
    /\ sql_query[1].from = "cte_3"

\* Whether parse_alteryx_xml returned a tool sequence for the posted document.
ParseReturnedTools ==
    /\ input.text = "document"
    /\ pc # "Parsing"
    /\ error \notin {"Error parsing XML",
                     "An unexpected error occurred during XML parsing"}

\* C13: the tool sequence parse_alteryx_xml returns has pairwise distinct ids
\* in strictly ascending numeric order.
C13_StrictlyAscendingIds ==
    ParseReturnedTools =>
        \A a, b \in 1..Len(tools) :
            a < b => IntOf(tools[a].id) < IntOf(tools[b].id)

\* The Select and Filter nodes of the posted document, in document order.
SelectAndFilterNodes ==
    SelectSeq(input.nodes, LAMBDA n : n.Type \in {"Select", "Filter"})

\* C14: the tools are those of the Select and Filter nodes alone: a node of
\* another type yields no tool and no error (parsing fails only for a Select
\* or Filter node whose id is not a number), the tools are the ones the
\* document without such nodes gives, and the blocks are numbered by the
\* tools' positions.
C14_OtherTypesSkipped ==
    input.text = "document" /\ pc # "Parsing" =>
        /\ error # "Error parsing XML"
        /\ error = "An unexpected error occurred during XML parsing"
           <=> \E k \in 1..Len(SelectAndFilterNodes) :
                   ~IsNumeric(SelectAndFilterNodes[k].ToolID)
        /\ ParseReturnedTools =>
              /\ Len(tools) = Len(SelectAndFilterNodes)
              /\ \A k \in 1..Len(tools) :
                    /\ tools[k].type = tools[k].xml_snippet.Type
                    /\ tools[k].type \in {"Select", "Filter"}
              /\ tools = ParseAlteryxXml([text |-> "document",
                                          nodes |-> SelectAndFilterNodes]).tools
              /\ \A k \in 1..Len(sql_steps) :
                    /\ BlockName(sql_steps[k]) = CteNameAt(k)
                    /\ BlockToolId(sql_steps[k]) = tools[k].id

\* C14 witness: a document with a Join node without ToolID between a Select
\* and a Filter has been compiled into the blocks cte_1 and cte_2.
C14_Witness ==
    /\ pc = "Done"
    /\ [k \in 1..Len(input.nodes) |-> input.nodes[k].Type]
       = <<"Select", "Join", "Filter">>
    /\ input.nodes[2].ToolID = None
    /\ Len(tools) = 2
    /\ [k \in 1..Len(sql_steps) |-> BlockName(sql_steps[k])] = <<"cte_1", "cte_2">>

\* C15: text that is not well-formed makes parsing fail with the
\* malformed-markup error and no tools; the run goes from Parsing to Failed
\* with no schema step, no translation call and no query.
C15_MalformedMarkup ==
    input.text = "malformed" =>
        /\ pc \in {"Parsing", "Failed"}
        /\ tools = <<>>
        /\ current_schema = <<>>
        /\ output_schema = <<>>
        /\ sql_steps = <<>>
        /\ calls = <<>>
        /\ sql_query = <<>>
        /\ pc = "Failed" => error = "Error parsing XML"
        /\ pc = "Parsing" => error = None

\* C15 witness: a request with text that is not well-formed has failed.
C15_Witness ==
    /\ input.text = "malformed"
    /\ pc = "Failed"
    /\ error = "Error parsing XML"

\* C16: a failed attempt that is not the tool's last one (fewer than
\* max_retries failures so far) does not end the run: the generator waits
\* 2^attempt time units and stays with the same tool, ready to call again.
C16_TransientRecovery ==
    [][pc = "Translate" /\ printed' # printed /\ retries + 1 < max_retries
       => /\ pc' = "Translate"
          /\ error' = None
          /\ slept' = Append(slept, 2 ^ (retries + 1))]_vars

C18_StepOrder ==
    /\ [](pc = "Translate" =>
             /\ output_schema = OutputSchema(current_schema, tools[i + 1]).schema
             /\ prompt.input_schema = current_schema
             /\ prompt.input_cte = current_cte
             /\ prompt.xml = tools[i + 1].xml_snippet)
    /\ [][/\ calls' # calls
             => /\ pc = "Translate"
                /\ calls' = Append(calls, prompt)
                /\ prompt.input_schema = current_schema
                /\ prompt.input_cte = current_cte
          /\ pc # "Parsing"
             /\ (current_schema' # current_schema \/ current_cte' # current_cte)
             => /\ Len(calls') = Len(calls) + 1
                /\ Len(sql_steps') = Len(sql_steps) + 1
                /\ current_schema' = output_schema
                /\ current_cte' = next_cte
          /\ pc = "Schema"
             => /\ calls' = calls
                /\ current_schema' = current_schema
                /\ current_cte' = current_cte]_vars

\* C18 witness: the second tool, a Select that changes the schema it
\* receives from the first Select, is being translated with a prompt that
\* carries the first Select's output schema and cte_1.
C18_Witness ==
    /\ pc = "Translate"
    /\ i = 1
    /\ tools[1].type = "Select"
    /\ tools[2].type = "Select"
    /\ current_schema # InitialSchema
    /\ output_schema # current_schema
    /\ next_cte = "cte_2"
    /\ prompt.input_cte = "cte_1"
    /\ prompt.input_schema = current_schema

\* The schema after the first n tools.
SchemaAfter(n) == Propagate(InitialSchema, SubSeq(tools, 1, n))

\* The position of the last Select before position k, 0 if there is none.
LastSelectBefore(k) ==
    LET selects == {j \in 1..(k - 1) : tools[j].type = "Select"} IN
    IF selects = {} THEN 0 ELSE CHOOSE j \in selects : \A m \in selects : m <= j

\* A text without its whitespace tokens.
Words(text) == SelectSeq(text, LAMBDA t : t \notin {" ", "\n", "\t"})

\* C19: the block of a Filter tool is WITH <its CTE> AS ( SELECT <columns>
\* FROM <prior CTE> <fragment> ), the columns being the keys, in order, of the
\* schema left by the most recent preceding Select (the initial schema if
\* there is none), which is the Filter's input and output schema, and the
\* fragment being the WHERE clause written for the tool (up to the whitespace
\* left around it); the compiled query holds the block as emitted.
C19_FilterBlock ==
    \A k \in 1..Len(sql_steps) :
        tools[k].type = "Filter" =>
            LET cols == Keys(SchemaAfter(LastSelectBefore(k)))
                prior == IF k = 1 THEN InitialCte ELSE CteNameAt(k - 1)
            IN /\ SchemaAfter(k) = SchemaAfter(k - 1)
               /\ SchemaAfter(k) = SchemaAfter(LastSelectBefore(k))
               /\ Words(sql_steps[k])
                  = <<"WITH", CteNameAt(k), "AS", "(", "SELECT">>
                    \o Join(cols, ", ")
                    \o <<"FROM", prior,
                         "WHERE", "condition of tool " \o tools[k].id, ")">>
               /\ pc = "Done" => sql_query[1].ctes[k] = sql_steps[k]

\* C19 witness: a Filter after a Select that changed the schema has been
\* compiled into a block that lists the Select's output columns.
C19_Witness ==
    /\ pc = "Done"
    /\ Len(tools) = 2
    /\ tools[1].type = "Select"
    /\ tools[2].type = "Filter"
    /\ Keys(SchemaAfter(1)) # Keys(InitialSchema)
    /\ SubSeq(sql_steps[2], 5, 5 + Len(Join(Keys(SchemaAfter(1)), ", ")))
       = <<"SELECT">> \o Join(Keys(SchemaAfter(1)), ", ")

\* The number of steps a run can still take, at most: one for the assembly,
\* and for each tool not yet translated one schema step and up to
\* max_retries calls.
Rank ==
    LET perTool == max_retries + 2 IN
    CASE pc \in {"Done", "Failed"} -> 0
      [] pc = "Assembly" -> 1
      [] pc = "Schema" -> 2 + (Len(tools) - i) * perTool
      [] pc = "Translate" -> 1 + (Len(tools) - i) * perTool - retries
      [] pc = "Parsing" -> 3 + Len(input.nodes) * perTool

\* C20: every run ends in Done or Failed: before that the run always has a
\* tool to work on and an attempt left, and every step lowers a rank that
\* never goes below zero, its value in Done and Failed.  No run makes more than
\* max_retries * (number of tools) calls or retries a tool beyond
\* max_retries, and every call is for the first tool without a block yet, a
\* returned call moving on to the next tool.
C20_Termination ==
    /\ [](/\ Len(calls) <= max_retries * Len(tools)
          /\ retries <= max_retries
          /\ Rank >= 0
          /\ pc \in {"Schema", "Translate"} => i < Len(tools)
          /\ pc = "Translate" => retries < max_retries)
    /\ [][/\ Rank' < Rank
          /\ i' >= i
          /\ calls' # calls
             => /\ pc = "Translate"
                /\ Len(calls') = Len(calls) + 1
                /\ retries < max_retries
                /\ Len(sql_steps) = i
                /\ calls'[Len(calls')].xml = tools[i + 1].xml_snippet
          /\ Len(sql_steps') > Len(sql_steps) => i' = i + 1]_vars

\* C20 witness: a run over three tools has ended in Done after one call per
\* tool.
C20_Witness ==
    /\ pc = "Done"
    /\ Len(tools) = MaxNodes
    /\ Len(calls) = Len(tools)
    /\ Rank = 0

\* A run that has not ended can take a step, and one that has ended cannot.
RunsOnUntilEnded == pc \notin {"Done", "Failed"} <=> ENABLED Next

\* The type tags of a schema.
TypeTags(schema) == {schema[k][2] : k \in 1..Len(schema)}

\* C21: the current schema never has more columns than the initial schema,
\* and every type tag in it is the type tag of a column of the initial
\* schema.
C21_SchemaNeverGrows ==
    /\ Len(current_schema) <= Len(InitialSchema)
    /\ TypeTags(current_schema) \subseteq TypeTags(InitialSchema)

\* C22: the output schema of a Select applied without error has as many
\* columns as the tool has selected fields.  (While the tool is being
\* translated, output_schema is the schema after it.)
C22_NoSelectedFieldLost ==
    pc = "Translate" /\ tools[i + 1].type = "Select" =>
        Len(output_schema)
        = Cardinality({k \in 1..Len(tools[i + 1].fields) :
                          tools[i + 1].fields[k].selected})

====
